---- MODULE Spec2Model ----
(***************************************************************************)
(* Multi-bet combination search of logic.py (find_multi_combination, its   *)
(* nested backtrack, find_player_alternatives, verify_one_bet_per_game,    *)
(* fix_multi_bets_same_game) and the request validation of app.py          *)
(* (generate_multi).                                                       *)
(*                                                                         *)
(* Odds, products and targets are exact rationals <<numerator,             *)
(* denominator>>; the catalogs below avoid values that sit on a comparison *)
(* boundary, where binary floating point could round the other way.        *)
(* The recursion of backtrack is an explicit stack of frames; the shared   *)
(* list current_selection, the candidate list all_solutions and the two    *)
(* nonlocal counters are variables, as in the closure.                     *)
(*                                                                         *)
(* Spec is one call (direct, or through generate_multi), its random draws  *)
(* left open.  PairSpec is two calls one after the other on the same       *)
(* arguments and the same outputs of the random generator, with different  *)
(* time budgets.  ConcSpec is two threads calling at once, the generator   *)
(* shared between them as the random module's is.                          *)
(***************************************************************************)
EXTENDS Integers, Sequences, FiniteSets, TLC

(***************************************************************************)
(* Rational arithmetic (Python floats, taken exactly).                     *)
(***************************************************************************)
Abs(x) == IF x < 0 THEN -x ELSE x

RECURSIVE GCD(_, _)
GCD(a, b) == IF b = 0 THEN a ELSE GCD(b, a % b)

\* n/d in lowest terms with a positive denominator (d # 0).
Rat(n, d) ==
    LET g == GCD(Abs(n), Abs(d))
        s == IF d < 0 THEN -1 ELSE 1
    IN  <<(s * n) \div g, (s * d) \div g>>

RMul(a, b) == Rat(a[1] * b[1], a[2] * b[2])
RDiv(a, b) == Rat(a[1] * b[2], a[2] * b[1])
RSub(a, b) == Rat(a[1] * b[2] - b[1] * a[2], a[2] * b[2])
RAbs(a) == <<Abs(a[1]), a[2]>>
RLe(a, b) == a[1] * b[2] <= b[1] * a[2]
RLt(a, b) == a[1] * b[2] < b[1] * a[2]
RInt(k) == <<k, 1>>

RECURSIVE Pow(_, _)
Pow(b, e) == IF e = 0 THEN 1 ELSE b * Pow(b, e - 1)

(***************************************************************************)
(* Constants of logic.py.                                                  *)
(***************************************************************************)
\* Faulty variant: a tolerance of 0.001.
ODDS_TOLERANCE_Thousandth == <<1, 1000>>

ODDS_TOLERANCE == <<1, 100>>
\* Faulty variant: a single leg is enough.
MIN_LEGS_One == 2 - 1
MIN_LEGS == 2
MAX_LEGS == 8
MAX_COMBINED_LEGS == 17
\* Faulty variant: one alternative fewer is kept.
MAX_PLAYER_ALTERNATIVES_Two == 3 - 1
MAX_PLAYER_ALTERNATIVES == 3
\* The literals of the search and of the ranking.
\* Faulty variant: a fallback band of 50%.
FALLBACK_BAND_Half == <<5, 10>>

FALLBACK_BAND == <<2, 10>>
FINAL_BAND == <<1, 10>>
\* Faulty variant: the branch is cut at 1.5 x target only.
OVERSHOOT_FACTOR_Loose == <<15, 10>>

OVERSHOOT_FACTOR == <<11, 10>>
HIGH_TARGET == 50
HIGH_ODDS == 5
ALT_RATIO_LOW == <<8, 10>>
ALT_RATIO_HIGH == <<12, 10>>
TOP_CHOICES == 3
\* The literal of app.py's sanity check on the requested odds.
MAX_TARGET_ODDS == 1000

(***************************************************************************)
(* Bets and catalogs.  A catalog is a Python dict: its keys in insertion   *)
(* order and the list of bets of each key.                                 *)
(***************************************************************************)
Bet(g, p, m, n, d) == [gameId |-> g, playerId |-> p, market |-> m, odds |-> <<n, d>>]

\* No game at all.
CatalogEmpty == [keys |-> <<>>, bets |-> <<>>]

\* One game: no two-leg combination exists.
CatalogSingle ==
    [keys |-> <<"S1">>,
     bets |-> [g \in {"S1"} |-> <<Bet("S1", "s1", "ATS", 2, 1), Bet("S1", "s2", "ATS", 3, 1)>>]]

\* Two games, one bet each.
CatalogPair ==
    [keys |-> <<"P1", "P2">>,
     bets |-> [g \in {"P1", "P2"} |->
                 IF g = "P1" THEN <<Bet("P1", "p1", "ATS", 2, 1)>>
                 ELSE <<Bet("P2", "p2", "ATS", 3, 1)>>]]

\* Three games, each offering odds 2.0 and 3.0.
CatalogThree ==
    [keys |-> <<"T1", "T2", "T3">>,
     bets |-> [g \in {"T1", "T2", "T3"} |->
                 <<Bet(g, "a", "ATS", 2, 1), Bet(g, "b", "ATS", 3, 1)>>]]

\* Two games; the first offers many near-equivalent bets (one of them with
\* odds 0, one the same player in a second market), the second one bet that
\* fits and one that does not.
CatalogWide ==
    [keys |-> <<"W1", "W2">>,
     bets |-> [g \in {"W1", "W2"} |->
                 IF g = "W1"
                 THEN <<Bet("W1", "w1", "ATS", 2, 1),
                        Bet("W1", "w1", "2+", 21, 10),
                        Bet("W1", "w2", "ATS", 39, 20),
                        Bet("W1", "w3", "ATS", 43, 20),
                        Bet("W1", "w4", "ATS", 23, 10),
                        Bet("W1", "w5", "ATS", 0, 1)>>
                 ELSE <<Bet("W2", "w6", "ATS", 3, 1),
                        Bet("W2", "w7", "ATS", 4, 1)>>]]

\* Nine interchangeable games, one bet of odds 1.0 each: more games than
\* MAX_LEGS.
ManyKeys == <<"H1", "H2", "H3", "H4", "H5", "H6", "H7", "H8", "H9">>
CatalogMany ==
    [keys |-> ManyKeys,
     bets |-> [g \in {ManyKeys[i] : i \in 1..Len(ManyKeys)} |-> <<Bet(g, "h", "ATS", 1, 1)>>]]

\* A catalog that breaks the Game Group invariant: the bet listed under X1
\* carries the gameId X2.
CatalogBroken ==
    [keys |-> <<"X1", "X2">>,
     bets |-> [g \in {"X1", "X2"} |->
                 IF g = "X1" THEN <<Bet("X2", "x1", "ATS", 2, 1)>>
                 ELSE <<Bet("X2", "x2", "ATS", 3, 1)>>]]

\* Three games for target 10.0: with the two bets of odds 1.0 the first game's
\* bets give the products 10.0099 (within ODDS_TOLERANCE of 10.0) and 10.011
\* (outside it).
CatalogBoundary ==
    [keys |-> <<"B1", "B2", "B3">>,
     bets |-> [g \in {"B1", "B2", "B3"} |->
                 IF g = "B1"
                 THEN <<Bet("B1", "b1", "ATS", 100099, 10000),
                        Bet("B1", "b2", "ATS", 10011, 1000)>>
                 ELSE <<Bet(g, "b3", "ATS", 1, 1)>>]]

\* Games of one bet each with odds 8.0, above the 5.0 that line 129 takes as
\* the highest odds of a game.
CatalogHighTwo ==
    [keys |-> <<"G1", "G2">>,
     bets |-> [g \in {"G1", "G2"} |-> <<Bet(g, "g", "ATS", 8, 1)>>]]

CatalogHighThree ==
    [keys |-> <<"G1", "G2", "G3">>,
     bets |-> [g \in {"G1", "G2", "G3"} |-> <<Bet(g, "g", "ATS", 8, 1)>>]]

\* Three games of one bet each for target 6.0: only the two-leg selection
\* that leaves the game of odds 7.0 out comes near the target.
CatalogSkip ==
    [keys |-> <<"K1", "K2", "K3">>,
     bets |-> [g \in {"K1", "K2", "K3"} |->
                 IF g = "K1" THEN <<Bet("K1", "k1", "ATS", 7, 1)>>
                 ELSE IF g = "K2" THEN <<Bet("K2", "k2", "ATS", 2, 1)>>
                 ELSE <<Bet("K3", "k3", "ATS", 3, 1)>>]]

KeySet(cat) == {cat.keys[i] : i \in 1..Len(cat.keys)}

\* Game Group invariant: every bet carries the gameId of its group.
GameGroupInvariant(cat) ==
    \A g \in KeySet(cat) : \A i \in 1..Len(cat.bets[g]) : cat.bets[g][i].gameId = g

(***************************************************************************)
(* Pure helpers of logic.py.                                               *)
(***************************************************************************)
\* math.prod(leg['odds'] for leg in legs), left to right from 1.
RECURSIVE ProdOdds(_)
ProdOdds(legs) ==
    IF legs = <<>> THEN RInt(1)
    ELSE RMul(ProdOdds(SubSeq(legs, 1, Len(legs) - 1)), legs[Len(legs)].odds)

\* math.isclose(a, b, rel_tol=0, abs_tol=ODDS_TOLERANCE)
IsClose(a, b) == RLe(RAbs(RSub(a, b)), ODDS_TOLERANCE)

\* Faulty variant: the duplicate check always passes.
verify_one_bet_per_game_AlwaysTrue(bets) == Len(bets) >= 0

\* verify_one_bet_per_game: no gameId occurs twice.
verify_one_bet_per_game(bets) ==
    \A i, j \in 1..Len(bets) : i # j => bets[i].gameId # bets[j].gameId

\* fix_multi_bets_same_game: keep the first bet met for each gameId.
RECURSIVE fix_multi_bets_same_game(_)
fix_multi_bets_same_game(bets) ==
    IF bets = <<>> THEN <<>>
    ELSE LET n == Len(bets)
             head == fix_multi_bets_same_game(SubSeq(bets, 1, n - 1))
         IN  IF \E i \in 1..(n - 1) : bets[i].gameId = bets[n].gameId
             THEN head
             ELSE Append(head, bets[n])

\* list.sort(key=...) is stable: the index x goes after every index whose key
\* is not larger than its own.  keys is the sequence of sort keys; the result
\* is the order of the indices after sorting.
RECURSIVE InsertIndex(_, _, _)
InsertIndex(sorted, x, keys) ==
    IF sorted = <<>> THEN <<x>>
    ELSE IF RLt(keys[x], keys[sorted[Len(sorted)]])
         THEN Append(InsertIndex(SubSeq(sorted, 1, Len(sorted) - 1), x, keys),
                     sorted[Len(sorted)])
         ELSE Append(sorted, x)

RECURSIVE SortOrder(_, _)
SortOrder(keys, n) ==
    IF n = 0 THEN <<>>
    ELSE InsertIndex(SortOrder(keys, n - 1), n, keys)

\* seq.sort(key=...) where keys[i] is the key of seq[i].
\* Faulty variant: the list is left in the order it was collected.
SortedBy_Unsorted(seq, keys) == seq

SortedBy(seq, keys) ==
    LET order == SortOrder(keys, Len(seq))
    IN  [k \in 1..Len(seq) |-> seq[order[k]]]

Min(a, b) == IF a <= b THEN a ELSE b

\* seq[:k]
Take(seq, k) == SubSeq(seq, 1, Min(k, Len(seq)))

\* Faulty variant: the two ceilings swapped.
MaxAllowedLegs_Swapped(sport) == IF sport = "combined" THEN MAX_LEGS ELSE MAX_COMBINED_LEGS

\* max_allowed_legs = MAX_COMBINED_LEGS if sport_type == 'combined' else MAX_LEGS
MaxAllowedLegs(sport) == IF sport = "combined" THEN MAX_COMBINED_LEGS ELSE MAX_LEGS

(***************************************************************************)
(* find_player_alternatives.                                               *)
(***************************************************************************)
\* required_odds = target_odds / (main_odds / bet['odds'])
RequiredOdds(main_multi, i, target) ==
    RDiv(target, RDiv(ProdOdds(main_multi), main_multi[i].odds))

\* expected_odds = (main_odds / bet['odds']) * alt_bet['odds']
ExpectedOdds(main_multi, i, alt) ==
    RMul(RDiv(ProdOdds(main_multi), main_multi[i].odds), alt.odds)

\* Faulty variant: the bet that is already in the multi is not skipped.
IsSameBet_Never(alt, bet) == alt.playerId = bet.playerId /\ alt.market = bet.market /\ FALSE

\* The bet that is already in the multi is skipped.
IsSameBet(alt, bet) == alt.playerId = bet.playerId /\ alt.market = bet.market

\* Faulty variant: the lower end of the band is not checked.
InRatioBand_UpperOnly(alt, required) == RLe(RDiv(alt.odds, required), ALT_RATIO_HIGH)

\* 0.8 <= alt_bet['odds'] / required_odds <= 1.2
InRatioBand(alt, required) ==
    LET odds_ratio == RDiv(alt.odds, required)
    IN  RLe(ALT_RATIO_LOW, odds_ratio) /\ RLe(odds_ratio, ALT_RATIO_HIGH)

\* The bets scanned for position i: bets_by_game[bet['gameId']].
ScannedBets(cat, bet) == cat.bets[bet.gameId]

\* alt_bet.copy() with the two annotations.
WithMeta(main_multi, i, alt, target) ==
    [gameId |-> alt.gameId, playerId |-> alt.playerId, market |-> alt.market,
     odds |-> alt.odds,
     expectedMultiOdds |-> ExpectedOdds(main_multi, i, alt),
     expectedDiff |-> RAbs(RSub(ExpectedOdds(main_multi, i, alt), target))]

\* position_alternatives of position i (1-based here), before truncation.
RECURSIVE CollectAlternatives(_, _, _, _, _)
CollectAlternatives(main_multi, i, scanned, k, target) ==
    IF k = 0 THEN <<>>
    ELSE LET rest == CollectAlternatives(main_multi, i, scanned, k - 1, target)
             alt == scanned[k]
         IN  IF IsSameBet(alt, main_multi[i]) THEN rest
             ELSE IF InRatioBand(alt, RequiredOdds(main_multi, i, target))
                  THEN Append(rest, WithMeta(main_multi, i, alt, target))
                  ELSE rest

\* Sorted by expectedDiff and cut to MAX_PLAYER_ALTERNATIVES.
PositionAlternatives(main_multi, i, cat, target) ==
    LET scanned == ScannedBets(cat, main_multi[i])
        found == CollectAlternatives(main_multi, i, scanned, Len(scanned), target)
        keys == [k \in 1..Len(found) |-> found[k].expectedDiff]
    IN  Take(SortedBy(found, keys), MAX_PLAYER_ALTERNATIVES)

\* The returned dict: keyed by the 0-based position, only positions with a
\* non-empty list.
find_player_alternatives(main_multi, cat, target) ==
    LET keys == {i \in 1..Len(main_multi) :
                    PositionAlternatives(main_multi, i, cat, target) # <<>>}
    IN  [p \in {i - 1 : i \in keys} |-> PositionAlternatives(main_multi, p + 1, cat, target)]

(***************************************************************************)
(* Inputs.                                                                 *)
(***************************************************************************)
\* Largest number of alternatives a direct caller asks for.
MaxAlternativesAsked == 2
\* Catalogs of up to this many games have every shuffle order enumerated.
\* The games of a larger catalog (CatalogMany) are interchangeable, so two
\* orders stand for all of them.
FullShuffleGames == 3
\* Largest stake of a request.
MaxStake == 2

\* Direct calls of find_multi_combination, as the test files make them.
Scenario(c, t, a, s) == [cat |-> c, target |-> t, alts |-> a, sport |-> s]

Scenarios ==
    {Scenario(CatalogEmpty, RInt(6), 1, "nrl"),
     Scenario(CatalogSingle, RInt(2), 1, "nrl"),
     Scenario(CatalogSingle, RInt(6), 1, "afl"),
     Scenario(CatalogPair, RInt(6), 1, "nrl"),
     Scenario(CatalogPair, RInt(0), 1, "nrl"),
     Scenario(CatalogMany, <<21, 20>>, 1, "nrl"),
     Scenario(CatalogBroken, RInt(6), 1, "nrl"),
     Scenario(CatalogBoundary, RInt(10), 1, "nrl"),
     Scenario(CatalogHighTwo, RInt(60), 1, "nrl"),
     Scenario(CatalogHighThree, RInt(60), 1, "nrl"),
     Scenario(CatalogSkip, RInt(6), 1, "nrl")}
    \cup {Scenario(CatalogThree, RInt(6), a, s) :
            a \in 1..MaxAlternativesAsked, s \in {"nrl", "combined"}}
    \cup {Scenario(CatalogWide, RInt(6), a, "nrl") : a \in 1..MaxAlternativesAsked}

\* Requests to /api/generate-multi.
Stakes == -1..MaxStake
WinAmounts == {-6, 0, 6, 2001}
RequestedSports == {"nrl", "rugby"}
RequestedAlternatives == {1}
\* What get_bets_grouped_by_game may return to the request handler.
LoadedCatalogs == {CatalogEmpty, CatalogThree}

\* random.shuffle(game_ids): every order of the keys.
Orders(keys) ==
    LET n == Len(keys)
        ks == {keys[i] : i \in 1..n}
    IN  IF n <= FullShuffleGames
        THEN {o \in [1..n -> ks] : \A i, j \in 1..n : i # j => o[i] # o[j]}
        ELSE {keys, [i \in 1..n |-> keys[n + 1 - i]]}

(***************************************************************************)
(* State.                                                                  *)
(***************************************************************************)
VARIABLES
    pc,                       \* idle, search, rank, done, raised, http400, http500, http200, http404
    caller,                   \* none, test (direct call) or app (generate_multi)
    stake, win_amount,        \* the request's numbers (0 for a direct call)
    bets_by_game,             \* the catalog passed to the search
    target_odds, num_alternatives, sport_type,
    game_ids,                 \* the shuffled keys
    clock_expired,            \* time.time() - start_time > MAX_EXECUTION_TIME
    time_limit_exceeded, solutions_found, all_solutions,
    current_selection,        \* the one list shared by every backtrack frame
    stack,                    \* the frames of backtrack, innermost last
    valid_solutions, best_multi, alternatives_by_position

\* The random module's generator (one per process), and what the specifications
\* that run the search twice, or in two threads, keep beside a search.
VARIABLES
    random_outputs,           \* the generator's outputs since it was seeded, in order
    random_position,          \* how many of them have been taken since the (re)seeding
    run,                      \* single; first, second; solo, both
    reference,                \* what the first (or solo) run left behind
    steps,                    \* backtrack steps taken by the current run
    thread,                   \* the thread whose search the variables above hold
    parked                    \* the search of the thread that is not running

harness == <<random_outputs, random_position, run, reference, steps, thread, parked>>

vars == <<pc, caller, stake, win_amount, bets_by_game, target_odds, num_alternatives,
          sport_type, game_ids, clock_expired, time_limit_exceeded, solutions_found,
          all_solutions, current_selection, stack, valid_solutions, best_multi,
          alternatives_by_position, harness>>

inputs == <<caller, stake, win_amount, bets_by_game, target_odds, num_alternatives,
            sport_type, game_ids>>
results == <<valid_solutions, best_multi, alternatives_by_position>>

NoAlternatives == [p \in {} |-> <<>>]

NoSearch ==
    /\ pc = "idle"
    /\ caller = "none"
    /\ stake = 0
    /\ win_amount = 0
    /\ bets_by_game = CatalogEmpty
    /\ target_odds = RInt(1)
    /\ num_alternatives = 0
    /\ sport_type = "nrl"
    /\ game_ids = <<>>
    /\ clock_expired = FALSE
    /\ time_limit_exceeded = FALSE
    /\ solutions_found = 0
    /\ all_solutions = <<>>
    /\ current_selection = <<>>
    /\ stack = <<>>
    /\ valid_solutions = <<>>
    /\ best_multi = <<>>
    /\ alternatives_by_position = NoAlternatives

\* One call on its own: the generator is not followed.
Init ==
    /\ NoSearch
    /\ random_outputs = <<>>
    /\ random_position = 0
    /\ run = "single"
    /\ reference = <<>>
    /\ steps = 0
    /\ thread = 1
    /\ parked = <<>>

(***************************************************************************)
(* find_multi_combination: entry.                                          *)
(***************************************************************************)
Frame(idx, product, at, todo) ==
    [game_idx |-> idx, current_product |-> product, at |-> at, todo |-> todo]

\* Lines 48-77 and the first call backtrack(0, 1.0, []).
StartSearch(who, st, win, cat, target, alts, sport) ==
    /\ pc' = "search"
    /\ caller' = who
    /\ stake' = st
    /\ win_amount' = win
    /\ bets_by_game' = cat
    /\ target_odds' = target
    /\ num_alternatives' = alts
    /\ sport_type' = sport
    /\ game_ids' \in Orders(cat.keys)
    /\ stack' = <<Frame(0, RInt(1), "entry", {})>>
    /\ UNCHANGED <<clock_expired, time_limit_exceeded, solutions_found, all_solutions,
                   current_selection, results>>

DirectCall ==
    /\ pc = "idle"
    /\ \E sc \in Scenarios : StartSearch("test", 0, 0, sc.cat, sc.target, sc.alts, sc.sport)

(***************************************************************************)
(* generate_multi (app.py): validation, then the call.                     *)
(***************************************************************************)
\* Faulty variant: the stake's sign is not checked.
RequestRejected_WinOnly(st, win) == win <= st

\* if stake <= 0 or win_amount <= stake: 400
RequestRejected(st, win) == st <= 0 \/ win <= st

\* if sport_type not in ['nrl', 'afl', 'combined']: sport_type = 'nrl'
ValidSport(sport) == IF sport \in {"nrl", "afl", "combined"} THEN sport ELSE "nrl"

Reject(code, st, win) ==
    /\ pc' = code
    /\ caller' = "app"
    /\ stake' = st
    /\ win_amount' = win
    /\ UNCHANGED <<bets_by_game, target_odds, num_alternatives, sport_type, game_ids,
                   clock_expired, time_limit_exceeded, solutions_found, all_solutions,
                   current_selection, stack, results>>

generate_multi ==
    /\ pc = "idle"
    /\ \E st \in Stakes, win \in WinAmounts, alts \in RequestedAlternatives,
          sport \in RequestedSports, cat \in LoadedCatalogs :
          IF RequestRejected(st, win) THEN Reject("http400", st, win)
          \* win_amount / stake with stake 0: ZeroDivisionError, not caught by
          \* the except clause of the validation block.
          ELSE IF st = 0 THEN Reject("http500", st, win)
          ELSE IF RLt(RInt(MAX_TARGET_ODDS), Rat(win, st)) THEN Reject("http400", st, win)
          ELSE IF cat.keys = <<>> THEN Reject("http500", st, win)
          ELSE StartSearch("app", st, win, cat, Rat(win, st), alts, ValidSport(sport))

(***************************************************************************)
(* backtrack, one frame step at a time.  A frame is at "entry" (line 87),  *)
(* at "resume" (line 146, after the optional skip branch), in the "loop"   *)
(* over the shuffled bets (line 155; todo holds the positions not yet      *)
(* drawn, the shuffle's order being revealed one draw at a time) or has    *)
(* "tried" a bet and waits for that call to return (line 161).             *)
(***************************************************************************)
Top == stack[Len(stack)]
Front(seq) == SubSeq(seq, 1, Len(seq) - 1)
ReplaceTop(f) == Append(Front(stack), f)

\* Faulty variant: > in place of >=.
EnoughFound_OffByOne == solutions_found > num_alternatives * 2

\* solutions_found >= num_alternatives * 2
EnoughFound == solutions_found >= num_alternatives * 2

\* abs(current_product - target_odds)
Diff(product) == RAbs(RSub(product, target_odds))

\* current_product * pow(5.0, remaining_games) < target_odds * 0.5
CannotReach(f) ==
    RLt(RMul(f.current_product, RInt(Pow(HIGH_ODDS, Len(game_ids) - f.game_idx))),
        RMul(target_odds, <<1, 2>>))

\* current_product > target_odds * 1.1 and target_odds > 0
Overshoot(f) ==
    RLt(RMul(target_odds, OVERSHOOT_FACTOR), f.current_product) /\ RLt(RInt(0), target_odds)

\* Faulty variant: the leg ceiling of lines 96-98 is not tested.
EntryOutcome_NoLegCheck(f) ==
    IF clock_expired THEN "timeout"
    ELSE IF EnoughFound THEN "enough"
    ELSE IF Len(current_selection) >= MIN_LEGS /\ IsClose(f.current_product, target_odds)
         THEN "tight"
    ELSE IF f.game_idx >= Len(game_ids) THEN "leaf"
    ELSE IF target_odds[1] > HIGH_TARGET * target_odds[2] /\ CannotReach(f) THEN "unreachable"
    ELSE IF Overshoot(f) THEN "overshoot"
    ELSE "expand"

\* Which return (or none) lines 87-136 take.
EntryOutcome(f) ==
    IF clock_expired THEN "timeout"
    ELSE IF EnoughFound THEN "enough"
    ELSE IF Len(current_selection) > MaxAllowedLegs(sport_type) THEN "toolong"
    ELSE IF Len(current_selection) >= MIN_LEGS /\ IsClose(f.current_product, target_odds)
         THEN "tight"
    ELSE IF f.game_idx >= Len(game_ids) THEN "leaf"
    ELSE IF target_odds[1] > HIGH_TARGET * target_odds[2] /\ CannotReach(f) THEN "unreachable"
    ELSE IF Overshoot(f) THEN "overshoot"
    ELSE "expand"

\* Line 120 divides by target_odds: ZeroDivisionError when it is 0.
EntryRaises(f) ==
    /\ EntryOutcome(f) = "leaf"
    /\ Len(current_selection) >= MIN_LEGS
    /\ verify_one_bet_per_game(current_selection)
    /\ target_odds[1] = 0

\* Whether this entry appends to all_solutions (lines 104-109, 115-122).
EntryAccepts(f) ==
    \/ /\ EntryOutcome(f) = "tight"
       /\ verify_one_bet_per_game(current_selection)
    \/ /\ EntryOutcome(f) = "leaf"
       /\ Len(current_selection) >= MIN_LEGS
       /\ verify_one_bet_per_game(current_selection)
       /\ target_odds[1] # 0
       /\ RLe(RDiv(Diff(f.current_product), target_odds), FALLBACK_BAND)

\* (solution, diff, current_product); solution = list(current_selection)
Candidate(f) ==
    [solution |-> current_selection, diff |-> Diff(f.current_product),
     final_odds |-> f.current_product]

\* The frame returns; when it was the outermost, line 171 follows.
Return ==
    /\ stack' = Front(stack)
    /\ pc' = IF Len(stack) = 1 THEN "rank" ELSE pc

\* Faulty variant: a candidate is put at the head of all_solutions
\* (insert(0, ...) in place of append).
Enter_RecordsFirst ==
    /\ pc = "search"
    /\ Top.at = "entry"
    /\ time_limit_exceeded' = (time_limit_exceeded \/ EntryOutcome(Top) = "timeout")
    /\ all_solutions' = IF EntryAccepts(Top) THEN <<Candidate(Top)>> \o all_solutions
                        ELSE all_solutions
    /\ solutions_found' = IF EntryAccepts(Top) THEN solutions_found + 1 ELSE solutions_found
    /\ IF EntryRaises(Top) THEN pc' = "raised" /\ stack' = stack
       ELSE IF EntryOutcome(Top) # "expand" THEN Return
       ELSE /\ pc' = pc
            \* random.random() < 0.5: the skip branch first, or not at all
            /\ \E skip \in BOOLEAN :
                  stack' = IF skip
                           THEN Append(ReplaceTop([Top EXCEPT !.at = "resume"]),
                                       Frame(Top.game_idx + 1, Top.current_product, "entry", {}))
                           ELSE ReplaceTop([Top EXCEPT !.at = "resume"])
    /\ UNCHANGED <<inputs, clock_expired, current_selection, results>>

\* Lines 87-144.
Enter ==
    /\ pc = "search"
    /\ Top.at = "entry"
    /\ time_limit_exceeded' = (time_limit_exceeded \/ EntryOutcome(Top) = "timeout")
    /\ all_solutions' = IF EntryAccepts(Top) THEN Append(all_solutions, Candidate(Top))
                        ELSE all_solutions
    /\ solutions_found' = IF EntryAccepts(Top) THEN solutions_found + 1 ELSE solutions_found
    /\ IF EntryRaises(Top) THEN pc' = "raised" /\ stack' = stack
       ELSE IF EntryOutcome(Top) # "expand" THEN Return
       ELSE /\ pc' = pc
            \* random.random() < 0.5: the skip branch first, or not at all
            /\ \E skip \in BOOLEAN :
                  stack' = IF skip
                           THEN Append(ReplaceTop([Top EXCEPT !.at = "resume"]),
                                       Frame(Top.game_idx + 1, Top.current_product, "entry", {}))
                           ELSE ReplaceTop([Top EXCEPT !.at = "resume"])
    /\ UNCHANGED <<inputs, clock_expired, current_selection, results>>

\* Faulty variant: line 152 without list(...), so that random.shuffle reorders
\* the catalog's own list (here: reverses it).
Resume_ShufflesCatalog ==
    /\ pc = "search"
    /\ Top.at = "resume"
    /\ IF time_limit_exceeded \/ EnoughFound
       THEN Return /\ UNCHANGED bets_by_game
       ELSE LET g == game_ids[Top.game_idx + 1]
                n == Len(bets_by_game.bets[g])
            IN  /\ pc' = pc
                /\ bets_by_game' = [bets_by_game EXCEPT
                       !.bets[g] = [k \in 1..n |-> bets_by_game.bets[g][n + 1 - k]]]
                /\ stack' = ReplaceTop([Top EXCEPT !.at = "loop", !.todo = 1..n])
    /\ UNCHANGED <<caller, stake, win_amount, target_odds, num_alternatives, sport_type,
                   game_ids, clock_expired, time_limit_exceeded, solutions_found,
                   all_solutions, current_selection, results>>

\* Lines 146-153.
Resume ==
    /\ pc = "search"
    /\ Top.at = "resume"
    /\ IF time_limit_exceeded \/ EnoughFound THEN Return
       ELSE /\ pc' = pc
            /\ stack' = ReplaceTop([Top EXCEPT
                  !.at = "loop",
                  !.todo = 1..Len(bets_by_game.bets[game_ids[Top.game_idx + 1]])])
    /\ UNCHANGED <<inputs, clock_expired, time_limit_exceeded, solutions_found,
                   all_solutions, current_selection, results>>

\* Faulty variant: the bet's odds are not multiplied into the product.
ChildFrame_NoMultiply(f, bet) == Frame(f.game_idx + 1, f.current_product, "entry", {})

\* Faulty variant: the call of line 160 passes game_idx, so that the same game
\* is offered again.
ChildFrame_SameGame(f, bet) == Frame(f.game_idx, RMul(f.current_product, bet.odds), "entry", {})

\* The frame entered by backtrack(game_idx + 1, current_product * odds, ...).
ChildFrame(f, bet) == Frame(f.game_idx + 1, RMul(f.current_product, bet.odds), "entry", {})

\* bet.get('odds', 1.0) <= 0: the bet is skipped.
InvalidOdds(bet) == bet.odds[1] <= 0

\* Lines 155-160: the next bet of the shuffled list, or the end of the loop.
TryBet ==
    /\ pc = "search"
    /\ Top.at = "loop"
    /\ IF Top.todo = {}
       THEN Return /\ UNCHANGED current_selection
       ELSE /\ pc' = pc
            /\ \E i \in Top.todo :
                 LET bet == bets_by_game.bets[game_ids[Top.game_idx + 1]][i]
                 IN  IF InvalidOdds(bet)
                     THEN /\ stack' = ReplaceTop([Top EXCEPT !.todo = @ \ {i}])
                          /\ UNCHANGED current_selection
                     ELSE /\ current_selection' = Append(current_selection, bet)
                          /\ stack' = Append(ReplaceTop([Top EXCEPT !.at = "tried", !.todo = @ \ {i}]),
                                             ChildFrame(Top, bet))
    /\ UNCHANGED <<inputs, clock_expired, time_limit_exceeded, solutions_found,
                   all_solutions, results>>

\* Faulty variant: line 164 tests the candidate cap only, not the time flag.
BetReturned_IgnoresTimeout ==
    /\ pc = "search"
    /\ Top.at = "tried"
    /\ current_selection' = Front(current_selection)
    /\ IF EnoughFound THEN Return
       ELSE pc' = pc /\ stack' = ReplaceTop([Top EXCEPT !.at = "loop"])
    /\ UNCHANGED <<inputs, clock_expired, time_limit_exceeded, solutions_found,
                   all_solutions, results>>

\* Lines 161-165: the call returned.
BetReturned ==
    /\ pc = "search"
    /\ Top.at = "tried"
    /\ current_selection' = Front(current_selection)
    /\ IF time_limit_exceeded \/ EnoughFound THEN Return
       ELSE pc' = pc /\ stack' = ReplaceTop([Top EXCEPT !.at = "loop"])
    /\ UNCHANGED <<inputs, clock_expired, time_limit_exceeded, solutions_found,
                   all_solutions, results>>

\* The wall clock passes MAX_EXECUTION_TIME while the search runs.
Tick ==
    /\ pc = "search"
    /\ ~clock_expired
    /\ clock_expired' = TRUE
    /\ UNCHANGED <<pc, inputs, time_limit_exceeded, solutions_found, all_solutions,
                   current_selection, stack, results>>

(***************************************************************************)
(* Ranking and selection (lines 171-204).                                  *)
(***************************************************************************)
\* all_solutions.sort(key=lambda x: x[1])
SortedSolutions(sols) == SortedBy(sols, [k \in 1..Len(sols) |-> sols[k].diff])

\* abs(odds - target_odds) / target_odds
RelativeDistance(odds) == RDiv(RAbs(RSub(odds, target_odds)), target_odds)

\* Lines 182-183.
Repaired(solution) ==
    IF verify_one_bet_per_game(solution) THEN solution
    ELSE fix_multi_bets_same_game(solution)

\* MIN_LEGS <= len(solution) <= max_allowed_legs
LegCountOk(solution) ==
    MIN_LEGS <= Len(solution) /\ Len(solution) <= MaxAllowedLegs(sport_type)

\* Faulty variant: the search's 20% band reused for the final filter.
WithinFinalBand_Loose(solution) == RLe(RelativeDistance(ProdOdds(solution)), FALLBACK_BAND)

\* Line 189.
WithinFinalBand(solution) == RLe(RelativeDistance(ProdOdds(solution)), FINAL_BAND)

\* Lines 186-190.
Keeps(solution) == LegCountOk(solution) /\ WithinFinalBand(solution)

\* valid_solutions, from the sorted candidates.
RECURSIVE ValidSolutions(_)
ValidSolutions(sols) ==
    IF sols = <<>> THEN <<>>
    ELSE LET rest == ValidSolutions(Front(sols))
             solution == Repaired(sols[Len(sols)].solution)
         IN  IF Keeps(solution) THEN Append(rest, solution) ELSE rest

\* all_solutions[:num_alternatives * 2]
Considered(sols) == Take(sols, num_alternatives * 2)

\* Faulty variant: any valid solution may be chosen, not only the top three.
SelectionCount_All(valid) == Len(valid)

\* selection_count = min(3, len(valid_solutions))
SelectionCount(valid) == Min(TOP_CHOICES, Len(valid))

\* Line 189 divides by target_odds.
RankRaises(sols) ==
    /\ target_odds[1] = 0
    /\ \E k \in 1..Len(Considered(sols)) : LegCountOk(Repaired(Considered(sols)[k].solution))

Rank ==
    /\ pc = "rank"
    /\ all_solutions' = SortedSolutions(all_solutions)
    /\ IF RankRaises(all_solutions')
       THEN pc' = "raised" /\ UNCHANGED results
       ELSE /\ pc' = "done"
            /\ valid_solutions' = ValidSolutions(Considered(all_solutions'))
            /\ IF valid_solutions' = <<>>
               THEN best_multi' = <<>> /\ alternatives_by_position' = NoAlternatives
               ELSE /\ \E k \in 1..SelectionCount(valid_solutions') :
                          best_multi' = valid_solutions'[k]
                    /\ alternatives_by_position' =
                          find_player_alternatives(best_multi', bets_by_game, target_odds)
    /\ UNCHANGED <<inputs, clock_expired, time_limit_exceeded, solutions_found,
                   current_selection, stack>>

\* generate_multi after the call: 200 with the legs, 404 without, 500 when
\* the call raised.
Respond ==
    /\ caller = "app"
    /\ pc \in {"done", "raised"}
    /\ pc' = IF pc = "raised" THEN "http500"
             ELSE IF best_multi # <<>> THEN "http200" ELSE "http404"
    /\ UNCHANGED <<inputs, clock_expired, time_limit_exceeded, solutions_found,
                   all_solutions, current_selection, stack, results>>

Next ==
    \/ DirectCall /\ UNCHANGED harness
    \/ generate_multi /\ UNCHANGED harness
    \/ Enter /\ UNCHANGED harness
    \/ Resume /\ UNCHANGED harness
    \/ TryBet /\ UNCHANGED harness
    \/ BetReturned /\ UNCHANGED harness
    \/ Tick /\ UNCHANGED harness
    \/ Rank /\ UNCHANGED harness
    \/ Respond /\ UNCHANGED harness

Spec == Init /\ [][Next]_vars

(***************************************************************************)
(* The random source.  logic.py draws from the random module's generator:  *)
(* random.shuffle (lines 53, 153), random.random (line 142) and            *)
(* random.choice (line 199).  The generator's outputs form one sequence,   *)
(* fixed by its seed; every draw takes the next output, reduced to the     *)
(* range the draw needs.  The outputs are chosen when first taken and are  *)
(* the same when the generator is seeded again.  The bets of a game are    *)
(* shuffled at line 153; as in the actions above, an output of that        *)
(* shuffle is taken when the place it decides is first read.               *)
(***************************************************************************)
\* Outputs for a draw with n outcomes (randbelow(n), or random() < 0.5).
Outputs(n) == 0..(n - 1)

\* This step took the outputs us from the generator, in order.
Drawn(us) ==
    /\ random_position' = random_position + Len(us)
    /\ \A j \in 1..Len(us) :
          random_position + j <= Len(random_outputs) =>
              us[j] = random_outputs[random_position + j]
    /\ random_outputs' =
          IF random_position + Len(us) <= Len(random_outputs) THEN random_outputs
          ELSE SubSeq(random_outputs, 1, random_position) \o us

NoDraw == UNCHANGED <<random_outputs, random_position>>

\* x[a], x[b] = x[b], x[a] (positions counted from 1)
Swap(x, a, b) == [x EXCEPT ![a] = x[b], ![b] = x[a]]

\* random.shuffle(x): for i in reversed(range(1, len(x))):
\*     j = randbelow(i + 1); x[i], x[j] = x[j], x[i]
RECURSIVE ShuffleFrom(_, _, _)
ShuffleFrom(x, i, us) ==
    IF i < 1 THEN x
    ELSE ShuffleFrom(Swap(x, i + 1, (us[Len(x) - i] % (i + 1)) + 1), i - 1, us)

Shuffled(x, us) == ShuffleFrom(x, Len(x) - 1, us)

\* The outputs a shuffle of n items takes: one for each i from n - 1 down to 1.
ShuffleOutputs(n) ==
    IF n <= 1 THEN {<<>>}
    ELSE {us \in [1..(n - 1) -> Outputs(n)] : \A k \in 1..(n - 1) : us[k] <= n - k}

\* The member of the set todo with k smaller members.
Nth(todo, k) == CHOOSE i \in todo : Cardinality({j \in todo : j < i}) = k

\* Lines 48-77, the shuffle of line 53 taking its outputs from the generator.
SeededStart(sc) ==
    /\ StartSearch("test", 0, 0, sc.cat, sc.target, sc.alts, sc.sport)
    /\ \E us \in ShuffleOutputs(Len(sc.cat.keys)) :
          /\ game_ids' = Shuffled(sc.cat.keys, us)
          /\ Drawn(us)

\* Enter, random.random() < 0.5 of line 142 read from the generator.
SeededEnter ==
    /\ Enter
    /\ IF EntryOutcome(Top) = "expand"
       THEN \E u \in Outputs(2) :
               /\ (u % 2 = 0) <=> (Len(stack') > Len(stack))
               /\ Drawn(<<u>>)
       ELSE NoDraw

\* TryBet, the next bet of the shuffled list read from the generator (the
\* last bet of a list needs no output).
SeededTryBet ==
    /\ TryBet
    /\ IF Cardinality(Top.todo) >= 2
       THEN \E u \in Outputs(Cardinality(Top.todo)) :
               /\ Nth(Top.todo, u % Cardinality(Top.todo)) \notin stack'[Len(stack)].todo
               /\ Drawn(<<u>>)
       ELSE NoDraw

\* Rank, random.choice of line 199 read from the generator.
SeededRank ==
    /\ Rank
    /\ IF pc' = "done" /\ valid_solutions' # <<>>
       THEN \E u \in Outputs(SelectionCount(valid_solutions')) :
               /\ best_multi' = valid_solutions'[(u % SelectionCount(valid_solutions')) + 1]
               /\ Drawn(<<u>>)
       ELSE NoDraw

\* The scenario the variables hold.
CurrentScenario == Scenario(bets_by_game, target_odds, num_alternatives, sport_type)

\* The search's variables as they are before a call, the scenario kept.
Forgotten ==
    /\ pc' = "idle"
    /\ game_ids' = <<>>
    /\ clock_expired' = FALSE
    /\ time_limit_exceeded' = FALSE
    /\ solutions_found' = 0
    /\ all_solutions' = <<>>
    /\ current_selection' = <<>>
    /\ stack' = <<>>
    /\ UNCHANGED <<caller, stake, win_amount, bets_by_game, target_odds, num_alternatives,
                   sport_type, results>>

(***************************************************************************)
(* Two runs of the search, one after the other, on the same catalog and    *)
(* target and with the generator seeded alike.  The first run's budget     *)
(* expires after some number of backtrack steps (or never); the second     *)
(* run's budget expires no earlier.                                        *)
(***************************************************************************)
\* Catalogs of at most FullShuffleGames games, so that the shuffle of line 53
\* is followed output by output.
PairScenarios ==
    {Scenario(CatalogPair, RInt(6), 1, "nrl"),
     Scenario(CatalogBoundary, RInt(10), 1, "nrl"),
     Scenario(CatalogHighThree, RInt(60), 1, "nrl")}

PairInit ==
    /\ NoSearch
    /\ random_outputs = <<>>
    /\ random_position = 0
    /\ run = "first"
    /\ reference = [expired |-> FALSE, expired_after |-> 0, raw |-> <<>>]
    /\ steps = 0
    /\ thread = 1
    /\ parked = <<>>

PairStart ==
    /\ pc = "idle"
    /\ \E sc \in PairScenarios :
          /\ run = "second" => sc = CurrentScenario
          /\ SeededStart(sc)
    /\ UNCHANGED <<run, reference, steps, thread, parked>>

\* A backtrack step of either run.
Counted ==
    /\ steps' = steps + 1
    /\ UNCHANGED <<run, reference, thread, parked>>

PairEnter == SeededEnter /\ Counted
PairResume == Resume /\ NoDraw /\ Counted
PairTryBet == SeededTryBet /\ Counted
PairBetReturned == BetReturned /\ NoDraw /\ Counted

\* The budget expires: in the first run after any number of steps, in the
\* second after at least as many.
PairTick ==
    /\ Tick
    /\ NoDraw
    /\ IF run = "first"
       THEN reference' = [reference EXCEPT !.expired = TRUE, !.expired_after = steps]
       ELSE /\ reference.expired
            /\ steps >= reference.expired_after
            /\ reference' = reference
    /\ UNCHANGED <<run, steps, thread, parked>>

\* The first run has reached line 171: its raw candidates are kept, and the
\* second run starts from the same seed.
Rerun ==
    /\ run = "first"
    /\ pc = "rank"
    /\ run' = "second"
    /\ reference' = [reference EXCEPT !.raw = all_solutions]
    /\ random_position' = 0
    /\ steps' = 0
    /\ Forgotten
    /\ UNCHANGED <<random_outputs, thread, parked>>

PairNext ==
    \/ PairStart
    \/ PairEnter
    \/ PairResume
    \/ PairTryBet
    \/ PairBetReturned
    \/ PairTick
    \/ Rerun

PairSpec == PairInit /\ [][PairNext]_vars

(***************************************************************************)
(* Two threads of the process, each calling find_multi_combination (a      *)
(* request each, say).  Everything the call works on is local to it        *)
(* (lines 48-77 and the closure of backtrack); the generator of the random *)
(* module belongs to the process.  The variables of the search hold the    *)
(* running thread's call, parked the other's.  A thread is switched out    *)
(* between two steps; a step calls random at most once.  First thread 1    *)
(* runs its call alone; then the generator is seeded as before and both    *)
(* threads run, thread 1 with the same arguments.                          *)
(***************************************************************************)
\* Catalogs of games with one bet each: the shuffle of line 153 takes no
\* output.
\* The calls of thread 1.
ConcScenarios ==
    {Scenario(CatalogPair, RInt(6), 1, "nrl"),
     Scenario(CatalogHighThree, RInt(60), 1, "nrl")}

\* The calls of thread 2.
OtherScenarios == {Scenario(CatalogPair, RInt(6), 1, "nrl")}

\* The locals of the running thread's call.
Local ==
    [pc |-> pc, caller |-> caller, stake |-> stake, win_amount |-> win_amount,
     bets_by_game |-> bets_by_game, target_odds |-> target_odds,
     num_alternatives |-> num_alternatives, sport_type |-> sport_type,
     game_ids |-> game_ids, clock_expired |-> clock_expired,
     time_limit_exceeded |-> time_limit_exceeded, solutions_found |-> solutions_found,
     all_solutions |-> all_solutions, current_selection |-> current_selection,
     stack |-> stack, valid_solutions |-> valid_solutions, best_multi |-> best_multi,
     alternatives_by_position |-> alternatives_by_position]

\* A thread that has not called yet.
NotCalled ==
    [pc |-> "idle", caller |-> "none", stake |-> 0, win_amount |-> 0,
     bets_by_game |-> CatalogEmpty, target_odds |-> RInt(1),
     num_alternatives |-> 0, sport_type |-> "nrl",
     game_ids |-> <<>>, clock_expired |-> FALSE,
     time_limit_exceeded |-> FALSE, solutions_found |-> 0,
     all_solutions |-> <<>>, current_selection |-> <<>>,
     stack |-> <<>>, valid_solutions |-> <<>>, best_multi |-> <<>>,
     alternatives_by_position |-> NoAlternatives]

\* The thread whose locals are l is switched in.
SwitchedIn(l) ==
    /\ pc' = l.pc
    /\ caller' = l.caller
    /\ stake' = l.stake
    /\ win_amount' = l.win_amount
    /\ bets_by_game' = l.bets_by_game
    /\ target_odds' = l.target_odds
    /\ num_alternatives' = l.num_alternatives
    /\ sport_type' = l.sport_type
    /\ game_ids' = l.game_ids
    /\ clock_expired' = l.clock_expired
    /\ time_limit_exceeded' = l.time_limit_exceeded
    /\ solutions_found' = l.solutions_found
    /\ all_solutions' = l.all_solutions
    /\ current_selection' = l.current_selection
    /\ stack' = l.stack
    /\ valid_solutions' = l.valid_solutions
    /\ best_multi' = l.best_multi
    /\ alternatives_by_position' = l.alternatives_by_position

ConcInit ==
    /\ NoSearch
    /\ random_outputs = <<>>
    /\ random_position = 0
    /\ run = "solo"
    /\ reference = <<>>
    /\ steps = 0
    /\ thread = 1
    /\ parked = <<>>

\* A step of the running thread.
Running == UNCHANGED <<run, reference, steps, thread, parked>>

ConcStart ==
    /\ pc = "idle"
    /\ \E sc \in (IF thread = 1 THEN ConcScenarios ELSE OtherScenarios) :
          /\ (run = "both" /\ thread = 1) => sc = reference.scenario
          /\ SeededStart(sc)
    /\ Running

ConcEnter == SeededEnter /\ Running
ConcResume == Resume /\ NoDraw /\ Running
ConcTryBet == SeededTryBet /\ Running
ConcBetReturned == BetReturned /\ NoDraw /\ Running
ConcRank == SeededRank /\ Running

\* Thread 1's call on its own has returned: what it returned is kept, the
\* generator is seeded as before and both threads are about to call.
StartBoth ==
    /\ run = "solo"
    /\ pc = "done"
    /\ run' = "both"
    /\ reference' = [scenario |-> CurrentScenario, best_multi |-> best_multi,
                     alternatives_by_position |-> alternatives_by_position]
    /\ random_position' = 0
    /\ SwitchedIn(NotCalled)
    /\ parked' = NotCalled
    /\ UNCHANGED <<random_outputs, steps, thread>>

\* The running thread is switched out for the other, unless that one's call
\* has returned.
Switch ==
    /\ run = "both"
    /\ parked.pc # "done"
    /\ parked' = Local
    /\ SwitchedIn(parked)
    /\ thread' = 3 - thread
    /\ UNCHANGED <<random_outputs, random_position, run, reference, steps>>

ConcNext ==
    \/ ConcStart
    \/ ConcEnter
    \/ ConcResume
    \/ ConcTryBet
    \/ ConcBetReturned
    \/ ConcRank
    \/ StartBoth
    \/ Switch

ConcSpec == ConcInit /\ [][ConcNext]_vars

(***************************************************************************)
(* Properties.                                                             *)
(***************************************************************************)
\* The search has returned to its caller.
Returned == pc \in {"done", "http200", "http404"}

\* C1: the Final Combination returned by find_multi_combination never holds
\* two legs with the same gameId, for every catalog (with or without the
\* Game Group invariant), target, shuffle order and skip draw.
C1_NoTwoLegsOfOneGame ==
    \A i, j \in 1..Len(best_multi) :
        i # j => best_multi[i].gameId # best_multi[j].gameId

\* A combination of several legs was returned for a catalog that satisfies
\* the Game Group invariant.
C1_Witness ==
    /\ pc = "done"
    /\ GameGroupInvariant(bets_by_game)
    /\ Len(best_multi) >= 2

\* C2: a non-empty Final Combination has between 2 legs and the mode's
\* ceiling: 8 for 'nrl' and 'afl', 17 for 'combined'.
C2_LegCountWithinBounds ==
    best_multi # <<>> =>
        /\ Len(best_multi) >= 2
        /\ sport_type \in {"nrl", "afl"} => Len(best_multi) <= 8
        /\ sport_type = "combined" => Len(best_multi) <= 17

\* A combination of exactly 8 legs was returned from a catalog of more than
\* 8 games.
C2_Witness ==
    /\ pc = "done"
    /\ Len(game_ids) > 8
    /\ Len(best_multi) = 8

\* C3: the product of the odds of a non-empty Final Combination differs
\* from a target > 0 by at most 10% of the target.
C3_WithinTenPercent ==
    (best_multi # <<>> /\ RLt(RInt(0), target_odds)) =>
        RLe(RMul(RInt(10), RAbs(RSub(ProdOdds(best_multi), target_odds))), target_odds)

\* A combination accepted under the fallback band (outside the tight
\* tolerance) was returned while another raw candidate, more than 10% off
\* target, was dropped.
C3_Witness ==
    /\ pc = "done"
    /\ best_multi # <<>>
    /\ ~IsClose(ProdOdds(best_multi), target_odds)
    /\ \E k \in 1..Len(all_solutions) :
          RLt(target_odds, RMul(RInt(10), all_solutions[k].diff))

\* What the ranking filter asks of a raw candidate: 2 to max legs and a
\* product within 10% of target.
PassesFilter(c) ==
    /\ Len(c.solution) >= 2
    /\ Len(c.solution) <= (IF sport_type = "combined" THEN 17 ELSE 8)
    /\ RLe(RMul(RInt(10), RAbs(RSub(ProdOdds(c.solution), target_odds))), target_odds)

PassingCandidates == {k \in 1..Len(all_solutions) : PassesFilter(all_solutions[k])}

\* The passing candidates strictly closer to target than candidate k.
CloserThan(k) == {j \in PassingCandidates : RLt(all_solutions[j].diff, all_solutions[k].diff)}

C5_FewGamesEmptyResult ==
    (pc # "idle" /\ caller = "test" /\ Len(bets_by_game.keys) < 2 /\ RLt(RInt(0), target_odds)) =>
        /\ pc \in {"search", "rank", "done"}
        /\ pc \in {"search", "rank"} => ENABLED (Enter \/ Resume \/ TryBet \/ BetReturned \/ Rank)
        /\ best_multi = <<>>
        /\ alternatives_by_position = NoAlternatives
        /\ all_solutions = <<>>

\* The search over a single-game catalog has returned.
C5_Witness ==
    /\ pc = "done"
    /\ caller = "test"
    /\ Len(game_ids) = 1
    /\ best_multi = <<>>

\* C6: for the catalog of 3 games each offering odds 2.0 and 3.0, target
\* 6.0, at least one alternative requested and no time-out, the returned
\* combination has 2 legs and product exactly 6.0.
C6_ThreeGamesFindSix ==
    (/\ Returned
     /\ bets_by_game = CatalogThree
     /\ target_odds = RInt(6)
     /\ num_alternatives >= 1
     /\ ~time_limit_exceeded) =>
        /\ Len(best_multi) = 2
        /\ ProdOdds(best_multi) = RInt(6)

\* That search has returned 2.0 x 3.0 without a time-out.
C6_Witness ==
    /\ pc = "done"
    /\ bets_by_game = CatalogThree
    /\ target_odds = RInt(6)
    /\ ~time_limit_exceeded
    /\ Len(best_multi) = 2
    /\ best_multi[1].odds = RInt(2)
    /\ best_multi[2].odds = RInt(3)

\* find_multi_combination has been called: a frame is on the stack, or the
\* search is over.
SearchCalled == stack # <<>> \/ pc \in {"rank", "done", "raised", "http200", "http404"}

\* The request's winAmount / stake is zero or negative.
TargetNotPositive == stake # 0 /\ win_amount * stake <= 0

\* C7: a request whose target odds (winAmount / stake) is zero or negative
\* is answered 400 and generate_multi never calls find_multi_combination
\* with target_odds <= 0.
C7_NonPositiveTargetRejected ==
    caller = "app" =>
        /\ TargetNotPositive => (pc = "http400" /\ ~SearchCalled)
        /\ SearchCalled => RLt(RInt(0), target_odds)

\* A request with a positive stake and a target of zero or less was rejected.
C7_Witness ==
    /\ caller = "app"
    /\ pc = "http400"
    /\ stake > 0
    /\ win_amount <= 0

\* The leg at 0-based position p of the Final Combination.
Leg(p) == best_multi[p + 1]

\* The odds the combination gets from its other legs: total / odds_p.
OthersOdds(p) == RDiv(ProdOdds(best_multi), Leg(p).odds)

\* required_p = target / (total / odds_p)
Required(p) == RDiv(target_odds, OthersOdds(p))

\* The positions in the catalog list of leg p's game that hold a bet other
\* than the leg (another playerId or another market) whose odds are within
\* 0.8 to 1.2 times the required odds.
FittingBets(p) ==
    LET game == bets_by_game.bets[Leg(p).gameId]
    IN  {k \in 1..Len(game) :
            /\ ~(game[k].playerId = Leg(p).playerId /\ game[k].market = Leg(p).market)
            /\ RLe(RMul(<<8, 10>>, Required(p)), game[k].odds)
            /\ RLe(game[k].odds, RMul(<<12, 10>>, Required(p)))}

Positions == {i - 1 : i \in 1..Len(best_multi)}

\* C8: every Alternative Entry listed for position i has the gameId of the
\* leg at position i and a (playerId, market) pair other than that leg's,
\* for a catalog satisfying the Game Group invariant.
C8_AlternativesSameGameOtherBet ==
    GameGroupInvariant(bets_by_game) =>
        \A p \in DOMAIN alternatives_by_position :
            /\ p \in Positions
            /\ \A k \in 1..Len(alternatives_by_position[p]) :
                  LET e == alternatives_by_position[p][k]
                  IN  /\ e.gameId = Leg(p).gameId
                      /\ ~(e.playerId = Leg(p).playerId /\ e.market = Leg(p).market)

\* Alternatives were listed for a position, one of them the leg's own player
\* in another market.
C8_Witness ==
    /\ pc = "done"
    /\ GameGroupInvariant(bets_by_game)
    /\ \E p \in DOMAIN alternatives_by_position :
          \E k \in 1..Len(alternatives_by_position[p]) :
              /\ alternatives_by_position[p][k].playerId = Leg(p).playerId
              /\ alternatives_by_position[p][k].market # Leg(p).market

\* C9: a bet is listed for position i only if altOdds / required_i is in
\* [0.8, 1.2], which is the same as its expectedMultiOdds being in
\* [0.8, 1.2] x target; position i is a key of the mapping exactly when some
\* other bet of the leg's game is in that band; no key maps to an empty list.
C9_AlternativesWithinBand ==
    (pc = "done" /\ best_multi # <<>>) =>
        /\ \A p \in DOMAIN alternatives_by_position :
              /\ alternatives_by_position[p] # <<>>
              /\ \A k \in 1..Len(alternatives_by_position[p]) :
                    LET e == alternatives_by_position[p][k]
                    IN  /\ RLe(RMul(<<8, 10>>, Required(p)), e.odds)
                        /\ RLe(e.odds, RMul(<<12, 10>>, Required(p)))
                        /\ e.expectedMultiOdds = RMul(OthersOdds(p), e.odds)
                        /\ RLe(RMul(<<8, 10>>, target_odds), e.expectedMultiOdds)
                        /\ RLe(e.expectedMultiOdds, RMul(<<12, 10>>, target_odds))
        /\ \A p \in Positions :
              (p \in DOMAIN alternatives_by_position) <=> (FittingBets(p) # {})

\* One position has alternatives, another has none, and a bet of positive
\* odds outside the band was left out.
C9_Witness ==
    /\ pc = "done"
    /\ \E p, q \in Positions :
          /\ p \in DOMAIN alternatives_by_position
          /\ q \notin DOMAIN alternatives_by_position
          /\ \E k \in 1..Len(bets_by_game.bets[Leg(q).gameId]) :
                LET b == bets_by_game.bets[Leg(q).gameId][k]
                IN  /\ b.playerId # Leg(q).playerId
                    /\ RLt(RMul(<<12, 10>>, Required(q)), b.odds)

\* The bet at position k of leg p's game is among the entries listed for p.
Listed(p, k) ==
    /\ p \in DOMAIN alternatives_by_position
    /\ \E n \in 1..Len(alternatives_by_position[p]) :
          LET e == alternatives_by_position[p][n]
              b == bets_by_game.bets[Leg(p).gameId][k]
          IN  /\ e.gameId = b.gameId
              /\ e.playerId = b.playerId
              /\ e.market = b.market
              /\ e.odds = b.odds

\* C10 as claimed: every bet of position i's game other than the leg whose
\* odds are within 0.8 to 1.2 times the required odds is in position i's
\* list.
C10_EveryFittingBetListed ==
    pc = "done" => \A p \in Positions : \A k \in FittingBets(p) : Listed(p, k)

\* |total / odds_p * odds_k - target| of the bet at position k of leg p's game.
ExpectedDiffOf(p, k) ==
    RAbs(RSub(RMul(OthersOdds(p), bets_by_game.bets[Leg(p).gameId][k].odds), target_odds))

\* The fitting bets that the sort puts before the one at k: strictly closer
\* to target, or as close and earlier in the catalog.
Before(p, k) ==
    {j \in FittingBets(p) :
        \/ RLt(ExpectedDiffOf(p, j), ExpectedDiffOf(p, k))
        \/ (ExpectedDiffOf(p, j) = ExpectedDiffOf(p, k) /\ j < k)}

\* C10 amended: such a bet is in position i's list unless 3 fitting bets of
\* that game come before it (closer to target, or as close and earlier in
\* the catalog); a bet with 3 or more fitting bets before it is not listed.
C10_FittingBetListedUnlessThreeBefore ==
    pc = "done" =>
        \A p \in Positions : \A k \in FittingBets(p) :
            Listed(p, k) <=> (Cardinality(Before(p, k)) < 3)

\* A position with four fitting bets: three listed, the fourth left out.
C10_Witness ==
    /\ pc = "done"
    /\ \E p \in Positions :
          /\ Cardinality(FittingBets(p)) > 3
          /\ Len(alternatives_by_position[p]) = 3
          /\ \E k \in FittingBets(p) : ~Listed(p, k)

\* C11: the list of every position is in ascending order of expectedDiff =
\* |total / odds_i * altOdds - target|, has at most MAX_PLAYER_ALTERNATIVES (3)
\* entries, and no fitting bet that was left out is strictly closer to target
\* than a listed one.
C11_AlternativesClosestFirst ==
    pc = "done" =>
        \A p \in DOMAIN alternatives_by_position :
            LET list == alternatives_by_position[p]
            IN  /\ Len(list) <= 3
                /\ \A n \in 1..Len(list) :
                      list[n].expectedDiff =
                          RAbs(RSub(RMul(OthersOdds(p), list[n].odds), target_odds))
                /\ \A n \in 1..(Len(list) - 1) :
                      RLe(list[n].expectedDiff, list[n + 1].expectedDiff)
                /\ \A k \in FittingBets(p) :
                      Listed(p, k) \/
                          \A n \in 1..Len(list) :
                              RLe(list[n].expectedDiff, ExpectedDiffOf(p, k))

\* Four fitting bets at four distances, listed in an order other than the
\* catalog's: the first entry is not the first fitting bet of the game, and
\* the bet left out is farther from target than all three listed.
C11_Witness ==
    /\ pc = "done"
    /\ \E p \in DOMAIN alternatives_by_position :
          LET list == alternatives_by_position[p]
          IN  /\ Len(list) = 3
              /\ RLt(list[1].expectedDiff, list[2].expectedDiff)
              /\ RLt(list[2].expectedDiff, list[3].expectedDiff)
              /\ \E j, k \in FittingBets(p) :
                    /\ j < k
                    /\ RLt(ExpectedDiffOf(p, k), ExpectedDiffOf(p, j))
                    /\ Listed(p, j)
                    /\ Listed(p, k)
              /\ \E k \in FittingBets(p) :
                    /\ ~Listed(p, k)
                    /\ RLt(list[3].expectedDiff, ExpectedDiffOf(p, k))

\* C12: once an entry of backtrack has observed the time budget exceeded,
\* every step of the search returns one pending frame: no bet is appended to
\* the selection, no call is made, no candidate is added, and the candidates
\* collected so far reach the ranking unchanged.
C12_TimeoutStopsTraversal ==
    [][(pc = "search" /\ time_limit_exceeded) =>
          /\ stack' = Front(stack)
          /\ Len(current_selection') <= Len(current_selection)
          /\ all_solutions' = all_solutions
          /\ solutions_found' = solutions_found
          /\ time_limit_exceeded'
          /\ pc' \in {"search", "rank"}]_vars

\* The time-out was observed below the outermost call, with candidates
\* already collected and a bet of the selection still to be popped.
C12_Witness ==
    /\ pc = "search"
    /\ time_limit_exceeded
    /\ Len(stack) >= 2
    /\ current_selection # <<>>
    /\ all_solutions # <<>>

\* C14: no step of find_multi_combination or find_player_alternatives changes
\* the catalog it was given: the keys, the bet list of every game and every
\* bet are after the call what they were before it.
C14_CatalogUnchanged ==
    [][pc # "idle" => bets_by_game' = bets_by_game]_vars

\* A call that shuffled the bet lists of two games, returned legs taken from
\* the catalog and listed annotated alternatives; the catalog's bets carry no
\* annotation.
C14_Witness ==
    /\ pc = "done"
    /\ Len(best_multi) >= 2
    /\ \A n \in 1..Len(best_multi) :
          \E k \in 1..Len(bets_by_game.bets[best_multi[n].gameId]) :
              bets_by_game.bets[best_multi[n].gameId][k] = best_multi[n]
    /\ \E p \in DOMAIN alternatives_by_position :
          /\ "expectedDiff" \in DOMAIN alternatives_by_position[p][1]
          /\ \A k \in 1..Len(bets_by_game.bets[Leg(p).gameId]) :
                "expectedDiff" \notin DOMAIN bets_by_game.bets[Leg(p).gameId][k]

\* C16: the raw candidate list never holds more than 2 x num_alternatives
\* candidates (solutions_found is its length while the search runs), and once
\* it holds that many no step of the search appends a bet to the selection,
\* makes a call or adds a candidate.
C16_CandidateCap ==
    /\ [](/\ Len(all_solutions) <= 2 * num_alternatives
          /\ (pc = "search" => solutions_found = Len(all_solutions)))
    /\ [][(pc = "search" /\ Len(all_solutions) >= 2 * num_alternatives) =>
             /\ all_solutions' = all_solutions
             /\ Len(current_selection') <= Len(current_selection)
             /\ Len(stack') <= Len(stack)]_vars

\* The cap was reached below the outermost call, with frames still pending
\* and legs still in the selection.
C16_Witness ==
    /\ pc = "search"
    /\ num_alternatives >= 1
    /\ Len(all_solutions) = 2 * num_alternatives
    /\ ~time_limit_exceeded
    /\ Len(stack) >= 2
    /\ current_selection # <<>>

\* A selection of at least MIN_LEGS legs whose product is within 0.01 of the
\* target, both ends included.
MeetsTightTolerance(sel) ==
    /\ Len(sel) >= 2
    /\ RLe(RAbs(RSub(ProdOdds(sel), target_odds)), <<1, 100>>)

\* C17: an entry of backtrack that holds a selection of at least MIN_LEGS
\* legs (at most the leg ceiling, one bet per game) with |product - target|
\* <= 0.01, and that the time budget has not stopped, appends that selection
\* to the raw candidates and returns; no raw candidate is a proper extension
\* of a selection that met the tight tolerance.
C17_TightToleranceAccepted ==
    /\ [](\A k \in 1..Len(all_solutions) :
             \A n \in 1..(Len(all_solutions[k].solution) - 1) :
                 ~MeetsTightTolerance(SubSeq(all_solutions[k].solution, 1, n)))
    /\ [][(/\ pc = "search"
           /\ Top.at = "entry"
           /\ stack' # stack
           /\ ~clock_expired
           /\ GameGroupInvariant(bets_by_game)
           /\ Len(current_selection) <= (IF sport_type = "combined" THEN 17 ELSE 8)
           /\ MeetsTightTolerance(current_selection))
          => /\ Len(all_solutions') = Len(all_solutions) + 1
             /\ all_solutions'[Len(all_solutions')].solution = current_selection
             /\ all_solutions'[Len(all_solutions')].final_odds = ProdOdds(current_selection)
             /\ SubSeq(all_solutions', 1, Len(all_solutions)) = all_solutions
             /\ stack' = Front(stack)
             /\ current_selection' = current_selection]_vars

\* Target 10.0: the two legs 10.0099 x 1.0 were recorded with a game still
\* undecided, and 10.011 x 1.0 was recorded only once the third game's bet
\* had been added.
C17_Witness ==
    /\ target_odds = <<10, 1>>
    /\ Len(game_ids) = 3
    /\ \E k \in 1..Len(all_solutions) :
          /\ Len(all_solutions[k].solution) = 2
          /\ all_solutions[k].final_odds = <<100099, 10000>>
          /\ all_solutions[k].solution[2].gameId = game_ids[2]
    /\ \E k \in 1..Len(all_solutions) :
          /\ Len(all_solutions[k].solution) = 3
          /\ all_solutions[k].final_odds = <<10011, 1000>>

\* |product - target| / target <= 0.2, for a positive target.
WithinTwentyPercent(product) ==
    RLe(RAbs(RSub(product, target_odds)), RMul(<<2, 10>>, target_odds))

\* C18: every raw candidate has at least MIN_LEGS legs and a product within
\* 0.01 of the target or within 20% of it; a selection outside the tight
\* tolerance is appended to the raw candidates only by an entry whose game
\* index equals the number of games, and only with at least MIN_LEGS legs and
\* a product within 20% of the target.
C18_FallbackOnlyAtLeaf ==
    /\ [](\A k \in 1..Len(all_solutions) :
             /\ Len(all_solutions[k].solution) >= 2
             /\ all_solutions[k].final_odds = ProdOdds(all_solutions[k].solution)
             /\ \/ MeetsTightTolerance(all_solutions[k].solution)
                \/ WithinTwentyPercent(all_solutions[k].final_odds))
    /\ [][(pc = "search" /\ all_solutions' # all_solutions)
          => /\ Top.at = "entry"
             /\ all_solutions' = Append(all_solutions, all_solutions'[Len(all_solutions')])
             /\ all_solutions'[Len(all_solutions')].solution = current_selection
             /\ \/ MeetsTightTolerance(current_selection)
                \/ /\ Top.game_idx = Len(game_ids)
                   /\ Len(current_selection) >= 2
                   /\ WithinTwentyPercent(ProdOdds(current_selection))]_vars

\* A raw candidate outside the tight tolerance and more than 10% (at most
\* 20%) from the target, recorded after every game had been decided, next to
\* one within the tight tolerance.
C18_Witness ==
    /\ pc = "rank"
    /\ \E k \in 1..Len(all_solutions) :
          /\ ~MeetsTightTolerance(all_solutions[k].solution)
          /\ RLt(RMul(<<1, 10>>, target_odds), all_solutions[k].diff)
          /\ WithinTwentyPercent(all_solutions[k].final_odds)
    /\ \E k \in 1..Len(all_solutions) : MeetsTightTolerance(all_solutions[k].solution)

\* product > 1.1 x target, for a positive target.
AboveTenPercent(product) ==
    /\ RLt(RInt(0), target_odds)
    /\ RLt(RMul(<<11, 10>>, target_odds), product)

\* C19 as claimed: no raw candidate is recorded from a selection whose product
\* exceeds 1.1 x target.
C19_NoCandidateAboveTenPercent ==
    \A k \in 1..Len(all_solutions) : ~AboveTenPercent(all_solutions[k].final_odds)

\* C19 amended: an entry of backtrack whose selection has a product above
\* 1.1 x target (target > 0) returns without a further leg being appended;
\* it records a candidate only if the product is within the tight tolerance,
\* or if every game has been decided and the product is within 20% of the
\* target.
C19_OvershootAbandoned ==
    [][(/\ pc = "search"
        /\ Top.at = "entry"
        /\ stack' # stack
        /\ AboveTenPercent(ProdOdds(current_selection)))
       => /\ stack' = Front(stack)
          /\ current_selection' = current_selection
          /\ \/ all_solutions' = all_solutions
             \/ MeetsTightTolerance(current_selection)
             \/ /\ Top.game_idx = Len(game_ids)
                /\ Len(current_selection) >= 2
                /\ WithinTwentyPercent(ProdOdds(current_selection))]_vars

\* The call made for a bet has returned with a game still undecided, no
\* time-out and no cap: the selection's product is above 1.1 x target and no
\* candidate was recorded.
C19_Witness ==
    /\ pc = "search"
    /\ Top.at = "tried"
    /\ Top.game_idx + 1 < Len(game_ids)
    /\ ~clock_expired
    /\ all_solutions = <<>>
    /\ Len(current_selection) >= 2
    /\ AboveTenPercent(ProdOdds(current_selection))

\* The highest odds among the bets of game g, or 1.0 when no bet of it
\* raises the product (the game may be left out of the selection).
MaxOdds(g) ==
    LET offered == {bets_by_game.bets[g][k].odds : k \in 1..Len(bets_by_game.bets[g])}
                   \cup {RInt(1)}
    IN  CHOOSE x \in offered : \A y \in offered : RLe(y, x)

\* The largest factor the games after position idx of game_ids can add.
RECURSIVE BestFrom(_)
BestFrom(idx) ==
    IF idx >= Len(game_ids) THEN RInt(1)
    ELSE RMul(MaxOdds(game_ids[idx + 1]), BestFrom(idx + 1))

\* C20: an entry that the reachability test for targets above 50 is about to
\* abandon has no extension whose product is at least half the target: its
\* product times the highest odds of every game still undecided is below
\* target / 2.
C20_PruneOnlyUnreachable ==
    (pc = "search" /\ Top.at = "entry" /\ EntryOutcome(Top) = "unreachable") =>
        RLt(RMul(Top.current_product, BestFrom(Top.game_idx)), RMul(target_odds, <<1, 2>>))

\* C13: the raw candidates of the first run (budget expired after k1 steps)
\* are a prefix of the raw candidates of the second run (same catalog, target
\* and random outputs; budget expired after k2 >= k1 steps, or not at all).
C13_LargerBudgetExtends ==
    (run = "second" /\ pc = "rank") =>
        /\ Len(reference.raw) <= Len(all_solutions)
        /\ SubSeq(all_solutions, 1, Len(reference.raw)) = reference.raw

\* The first run was cut by its budget with a candidate found; the second,
\* cut later or not at all, found that candidate and another after it.
C13_Witness ==
    /\ run = "second"
    /\ pc = "rank"
    /\ reference.expired
    /\ reference.raw # <<>>
    /\ Len(all_solutions) > Len(reference.raw)

\* C15: the call of thread 1 returns, with thread 2 running a call alongside
\* in any interleaving, what it returned when it ran alone from the same
\* seed.
C15_SearchesDoNotInterfere ==
    run = "both" =>
        /\ (thread = 1 /\ pc = "done") =>
              /\ best_multi = reference.best_multi
              /\ alternatives_by_position = reference.alternatives_by_position
        /\ (thread = 2 /\ parked.pc = "done") =>
              /\ parked.best_multi = reference.best_multi
              /\ parked.alternatives_by_position = reference.alternatives_by_position

(***************************************************************************)
(* C21.  The search tree of a call, apart from its traversal: a path       *)
(* decides the first k games of the shuffled order, each either left out   *)
(* (0) or given one of its bets by position.                               *)
(***************************************************************************)
\* current_selection at the node a path leads to, after its first j decisions.
RECURSIVE PathSelection(_, _)
PathSelection(path, j) ==
    IF j = 0 THEN <<>>
    ELSE IF path[j] = 0 THEN PathSelection(path, j - 1)
    ELSE Append(PathSelection(path, j - 1), bets_by_game.bets[game_ids[j]][path[j]])

\* Lines 96-136 at the node of selection sel and index idx, the two stop
\* conditions (lines 88 and 93) left aside.
NodeOutcome(sel, idx) ==
    LET f == Frame(idx, ProdOdds(sel), "entry", {})
    IN  IF Len(sel) > MaxAllowedLegs(sport_type) THEN "toolong"
        ELSE IF Len(sel) >= MIN_LEGS /\ IsClose(f.current_product, target_odds) THEN "tight"
        ELSE IF idx >= Len(game_ids) THEN "leaf"
        ELSE IF target_odds[1] > HIGH_TARGET * target_odds[2] /\ CannotReach(f)
             THEN "unreachable"
        ELSE IF Overshoot(f) THEN "overshoot"
        ELSE "expand"

\* The number of bets of the game with the most bets.
MostBets ==
    IF game_ids = <<>> THEN 0
    ELSE LET sizes == {Len(bets_by_game.bets[game_ids[i]]) : i \in 1..Len(game_ids)}
         IN  CHOOSE w \in sizes : \A v \in sizes : v <= w

\* Paths over the first k games: a bet taken exists and has positive odds
\* (line 157).
Paths(k) ==
    {path \in [1..k -> 0..MostBets] :
        \A j \in 1..k :
            path[j] # 0 =>
                /\ path[j] <= Len(bets_by_game.bets[game_ids[j]])
                /\ ~InvalidOdds(bets_by_game.bets[game_ids[j]][path[j]])}

\* No node on the way is pruned (or ends the branch), and the node reached passes
\* the test of line 102.
UnprunedTight(path, k) ==
    /\ \A j \in 0..(k - 1) : NodeOutcome(PathSelection(path, j), j) = "expand"
    /\ NodeOutcome(PathSelection(path, k), k) = "tight"

\* The selection is one of the raw candidates.
Recorded(sel) == \E c \in 1..Len(all_solutions) : all_solutions[c].solution = sel

\* C21: when a search ends and neither the time budget nor the candidate cap
\* has stopped it, every one-leg-per-game selection within the tight tolerance
\* that no prune cuts off has been recorded: at each game node both the skip
\* branch and the branch of the game's bets were explored.
C21_EveryTightSelectionRecorded ==
    (/\ pc = "done"
     /\ ~time_limit_exceeded
     /\ ~EnoughFound
     /\ GameGroupInvariant(bets_by_game))
    => \A k \in 0..Len(game_ids) : \A path \in Paths(k) :
           UnprunedTight(path, k) => Recorded(PathSelection(path, k))

(***************************************************************************)
(* C22.  The in-progress Selection.                                        *)
(***************************************************************************)
\* C22 as stated: in every reachable state of the search, current_selection
\* holds no two bets with the same gameId and its length never exceeds the
\* configured maximum leg count, also in catalogs with more games than the
\* maximum.  (Stated for catalogs that satisfy the Game Group invariant.)
C22_SelectionWithinMaximum ==
    GameGroupInvariant(bets_by_game) =>
        /\ verify_one_bet_per_game(current_selection)
        /\ Len(current_selection) <= MaxAllowedLegs(sport_type)

\* C22 as amended: on a catalog that satisfies the Game Group invariant,
\* current_selection never holds two bets with the same gameId and never
\* exceeds the maximum leg count by more than one; a selection of
\* maximum + 1 legs exists only from the append of line 159 to the pop of
\* line 161, while the call made with it (line 160) runs its entry checks and
\* returns: no candidate is recorded, no leg appended and no call made.
C22_SelectionAtMostOneOver ==
    /\ [](GameGroupInvariant(bets_by_game) =>
            /\ verify_one_bet_per_game(current_selection)
            /\ Len(current_selection) <= MaxAllowedLegs(sport_type) + 1
            /\ Len(current_selection) > MaxAllowedLegs(sport_type) =>
                   pc = "search" /\ Top.at \in {"entry", "tried"})
    /\ [][(/\ GameGroupInvariant(bets_by_game)
           /\ Len(current_selection) > MaxAllowedLegs(sport_type))
          => /\ all_solutions' = all_solutions
             /\ solutions_found' = solutions_found
             /\ Len(current_selection') <= Len(current_selection)
             /\ Len(stack') <= Len(stack)]_vars

\* A ninth leg has been appended in the nine-game catalog (maximum 8) and the
\* call made with it is about to run its entry checks, with neither the time
\* budget nor the candidate cap reached.
C22_Witness ==
    /\ pc = "search"
    /\ GameGroupInvariant(bets_by_game)
    /\ Len(game_ids) > MaxAllowedLegs(sport_type)
    /\ Len(current_selection) = MaxAllowedLegs(sport_type) + 1
    /\ Top.at = "entry"
    /\ ~clock_expired
    /\ ~EnoughFound

(***************************************************************************)
(* C23.  The duplicate-game repair.                                        *)
(***************************************************************************)
\* The entry on top of the stack evaluates verify_one_bet_per_game on
\* list(current_selection) (line 105 or line 117).
TestedAtAcceptance ==
    /\ pc = "search"
    /\ Top.at = "entry"
    /\ Len(current_selection) >= MIN_LEGS
    /\ EntryOutcome(Top) \in {"tight", "leaf"}

\* Lines 181-190 with lines 182-183 left out: the candidates as recorded that
\* pass the leg count and the 10% filter.
RECURSIVE KeptAsRecorded(_)
KeptAsRecorded(sols) ==
    IF sols = <<>> THEN <<>>
    ELSE LET rest == KeptAsRecorded(Front(sols))
             solution == sols[Len(sols)].solution
         IN  IF Keeps(solution) THEN Append(rest, solution) ELSE rest

\* C23: for a catalog satisfying the Game Group invariant,
\* verify_one_bet_per_game is true of every selection tested at acceptance
\* and of every raw candidate, so that line 183 (fix_multi_bets_same_game) is
\* never reached: the valid solutions are the considered candidates as
\* recorded, none altered and none dropped but by the leg count or the 10%
\* filter.
C23_RepairUnreachable ==
    GameGroupInvariant(bets_by_game) =>
        /\ TestedAtAcceptance => verify_one_bet_per_game(current_selection)
        /\ \A c \in 1..Len(all_solutions) :
               /\ verify_one_bet_per_game(all_solutions[c].solution)
               /\ fix_multi_bets_same_game(all_solutions[c].solution) = all_solutions[c].solution
        /\ Returned => valid_solutions = KeptAsRecorded(Considered(all_solutions))

\* A search on a catalog satisfying the invariant has returned after ranking
\* several raw candidates, one of which the 10% filter dropped.
C23_Witness ==
    /\ pc = "done"
    /\ GameGroupInvariant(bets_by_game)
    /\ Len(all_solutions) >= 2
    /\ valid_solutions # <<>>
    /\ Len(valid_solutions) < Len(Considered(all_solutions))

====
